---- MODULE Spec2Model ----
(***************************************************************************)
(* A model of adapt-reference.py: the script reads the current component   *)
(* file and the reference component file, cuts fragments out of them by    *)
(* marker search, rewrites property names with a lookup table, assembles   *)
(* the four view blocks and overwrites the current component file.         *)
(*                                                                         *)
(* A text is a sequence of atoms; an atom is a string and the text is the  *)
(* concatenation of its atoms.  Every literal the script searches for is a *)
(* sequence of atoms, cut so that literals which share characters share    *)
(* atoms ('return (' is <<"return ", "(">> and the value of 'isCompact'    *)
(* starts with "(").  The texts of the f-string template are searched by   *)
(* no operation except the header pattern and are kept as whole atoms.     *)
(***************************************************************************)
EXTENDS Integers, Sequences, FiniteSets, TLC

VARIABLES
    fsCurrent,      \* contents of src/components/tickets/ServiceTicketCard.tsx
    fsRef,          \* contents of src/components/tickets/ServiceTicketCard_REF.tsx
    perm,           \* which open() calls the file system lets succeed
    pc,             \* the statement group the run is at
    current, ref,   \* the script's variables, <<>> before they are assigned
    header, list_section, grid_section, list_parts,
    list_adapted, grid_adapted,
    compact_view, normal_view, grid_normal, grid_compact,
    output,
    stdout,         \* the lines printed so far by this run
    io,             \* history: the file operations of this run, in order
    fsAtStart,      \* history: the current file's contents when this run started
    ref0,           \* history: the reference file's contents at the very start
    prev            \* history: what the previous run wrote, if it wrote

vars == <<fsCurrent, fsRef, perm, pc, current, ref, header, list_section,
          grid_section, list_parts, list_adapted, grid_adapted, compact_view,
          normal_view, grid_normal, grid_compact, output, stdout, io,
          fsAtStart, ref0, prev>>

(***************************************************************************)
(* Bounds on the inputs the specifications draw.                           *)
(***************************************************************************)
MaxCurWords == 3
MaxRunRefWords == 2
MaxSliceWords == 4
MaxGridWords == 4
MaxMapWords == 4

(***************************************************************************)
(* The literals of the script.                                             *)
(***************************************************************************)
CurrentPath == "src/components/tickets/ServiceTicketCard.tsx"
RefPath == "src/components/tickets/ServiceTicketCard_REF.tsx"

Import == "import"
Terminator == "const hasNote = !!ticket.notes;"
ListMarker == "// List View Layout"
GridMarker == "// Grid View Layout"
ReturnParen == <<"return ", "(">>
IsCompactQ == <<"isCompact", " ? ">>

LayoutList == <<"layout === 'list'">>
VmCompact == "viewMode === 'compact'"
VmNormal == "viewMode === 'normal'"
VmEither == <<VmCompact, " || ", VmNormal>>
VmCompactParen == <<"(", VmCompact, ")">>

GuardCompact == "if (viewMode === 'compact') {"
GuardNormal == "if (viewMode === 'normal') {"
GuardGridNormal == "if (viewMode === 'grid-normal') {"
GuardGridCompact == "if (viewMode === 'grid-compact') {"

mappings ==
    << [old |-> <<"card.", "ticketNumber">>, new |-> <<"ticket.", "number">>],
       [old |-> <<"card.", "customerName">>, new |-> <<"ticket.", "clientName">>],
       [old |-> <<"card.", "serviceName">>,  new |-> <<"ticket.", "service">>],
       [old |-> <<"card.", "percentage">>,   new |-> <<"progress">>],
       [old |-> <<"card.", "isFirstVisit">>, new |-> <<"isFirstVisit">>],
       [old |-> <<"card.", "hasStar">>,      new |-> <<"hasStar">>],
       [old |-> <<"card.", "hasNote">>,      new |-> <<"hasNote">>],
       [old |-> <<"card.", "staff">>,        new |-> <<"staff", "List">>],
       [old |-> <<"card.", "timeLeft">>,     new |-> <<"formatTime(timeRemaining)">>],
       [old |-> <<"card.", "id">>,           new |-> <<"ticket.", "id">>],
       [old |-> LayoutList,                  new |-> VmEither],
       [old |-> <<"size === 'compact'">>,    new |-> <<VmCompact>>],
       [old |-> <<"isCompact">>,             new |-> VmCompactParen] >>

(***************************************************************************)
(* Python's string operations, on texts.                                   *)
(***************************************************************************)
Min(a, b) == IF a < b THEN a ELSE b
Max(a, b) == IF a > b THEN a ELSE b

RECURSIVE FindFrom(_, _, _)
FindFrom(s, needle, i) ==
    IF i + Len(needle) > Len(s) THEN -1
    ELSE IF SubSeq(s, i + 1, i + Len(needle)) = needle THEN i
    ELSE FindFrom(s, needle, i + 1)

\* str.find: the 0-based place of the first occurrence, -1 when there is none.
Find(s, needle) == FindFrom(s, needle, 0)

\* `needle in s`
Contains(s, needle) == Find(s, needle) # -1

\* str.replace: every occurrence, left to right, without overlap.
RECURSIVE Replace(_, _, _)
Replace(s, old, new) ==
    IF Len(s) < Len(old) THEN s
    ELSE IF SubSeq(s, 1, Len(old)) = old
         THEN new \o Replace(SubSeq(s, Len(old) + 1, Len(s)), old, new)
         ELSE <<Head(s)>> \o Replace(Tail(s), old, new)

\* str.split(sep): the pieces between the occurrences of sep.
RECURSIVE Split(_, _)
Split(s, sep) ==
    LET i == Find(s, sep)
    IN  IF i = -1 THEN <<s>>
        ELSE <<SubSeq(s, 1, i)>> \o Split(SubSeq(s, i + Len(sep) + 1, Len(s)), sep)

(***************************************************************************)
(* A slice bound of -1 is the place of the text's last character, which    *)
(* lies inside its last atom.  CharSplit gives each atom a reference file  *)
(* can end with as the atom without its last character, and that           *)
(* character; an atom of one character has an empty first part.            *)
(***************************************************************************)
CharSplit ==
    [a \in {ListMarker, GridMarker, Terminator, Import, "return ", "(", ")",
            "card.", "hasStar", "staff", "isCompact", "layout === 'list'",
            "size === 'compact'", "min-w-[280px]", "a"} |->
        CASE a = ListMarker -> <<"// List View Layou", "t">>
          [] a = GridMarker -> <<"// Grid View Layou", "t">>
          [] a = Terminator -> <<"const hasNote = !!ticket.notes", ";">>
          [] a = Import -> <<"impor", "t">>
          [] a = "return " -> <<"return", " ">>
          [] a = "(" -> <<"", "(">>
          [] a = ")" -> <<"", ")">>
          [] a = "card." -> <<"card", ".">>
          [] a = "hasStar" -> <<"hasSta", "r">>
          [] a = "staff" -> <<"staf", "f">>
          [] a = "isCompact" -> <<"isCompac", "t">>
          [] a = "layout === 'list'" -> <<"layout === 'list", "'">>
          [] a = "size === 'compact'" -> <<"size === 'compact", "'">>
          [] a = "min-w-[280px]" -> <<"min-w-[280px", "]">>
          [] a = "a" -> <<"", "a">>]

Chop(a) == IF CharSplit[a][1] = "" THEN <<>> ELSE <<CharSplit[a][1]>>
LastChar(a) == CharSplit[a][2]

\* s with its last atom cut before its last character.
Refined(s) ==
    IF s = <<>> THEN <<>>
    ELSE SubSeq(s, 1, Len(s) - 1) \o Chop(s[Len(s)]) \o <<LastChar(s[Len(s)])>>

\* A variant that reads a negative bound as the start of the text.
NormMutantZero(i, n) == IF i < 0 THEN 0 ELSE Min(i, n)

\* Python's reading of a slice bound in a text of n places.
Norm(i, n) == IF i < 0 THEN Max(n + i, 0) ELSE Min(i, n)

\* s[a:b] and s[a:], for bounds that str.find gave on s: a bound >= 0 is the
\* start of an atom, which Refined(s) leaves where it is.
PySlice(s, a, b) ==
    LET r == Refined(s)
        lo == Norm(a, Len(r))
        hi == Norm(b, Len(r))
    IN  IF lo >= hi THEN <<>> ELSE SubSeq(r, lo + 1, hi)

PySliceFrom(s, a) ==
    LET r == Refined(s)
        lo == Norm(a, Len(r))
    IN  IF a >= 0 THEN SubSeq(s, lo + 1, Len(s)) ELSE SubSeq(r, lo + 1, Len(r))

(***************************************************************************)
(* The script's computations.                                              *)
(***************************************************************************)
\* A variant with a greedy pattern: up to the last terminator.
HeaderSearchMutantGreedy(cur) ==
    LET i == Find(cur, <<Import>>)
        rest == SubSeq(cur, i + 2, Len(cur))
        js == {j \in 1..Len(rest) : rest[j] = Terminator}
    IN  IF i = -1 \/ js = {}
        THEN [matched |-> FALSE, group |-> <<>>]
        ELSE [matched |-> TRUE,
              group |-> SubSeq(cur, i + 1, i + 1 + (CHOOSE j \in js : \A k \in js : k <= j))]

\* re.search(r'(import[\s\S]*?const hasNote = !!ticket\.notes;)', current):
\* the leftmost 'import' that a terminator follows, up to the first terminator
\* after it.
HeaderSearch(cur) ==
    LET i == Find(cur, <<Import>>)
        rest == SubSeq(cur, i + 2, Len(cur))
        j == Find(rest, <<Terminator>>)
    IN  IF i = -1 \/ j = -1
        THEN [matched |-> FALSE, group |-> <<>>]
        ELSE [matched |-> TRUE, group |-> SubSeq(cur, i + 1, i + 1 + j + 1)]

\* A variant that keeps the whole file when the pattern does not match.
HeaderOfMutantWhole(cur) ==
    IF HeaderSearch(cur).matched THEN HeaderSearch(cur).group ELSE cur

\* header_match.group(1) if header_match else ''
HeaderOf(cur) ==
    IF HeaderSearch(cur).matched THEN HeaderSearch(cur).group ELSE <<>>

ListSectionOf(r) == PySlice(r, Find(r, <<ListMarker>>), Find(r, <<GridMarker>>))

GridSectionOf(r) == PySliceFrom(r, Find(r, <<GridMarker>>))

\* for old, new in mappings.items(): code = code.replace(old, new)
RECURSIVE ApplyFrom(_, _, _)
ApplyFrom(code, k, last) ==
    IF k > last THEN code
    ELSE ApplyFrom(Replace(code, mappings[k].old, mappings[k].new), k + 1, last)

\* A variant that leaves out the last entry of the table.
apply_mappings_mutant_short(code) == ApplyFrom(code, 1, Len(mappings) - 1)

apply_mappings(code) == ApplyFrom(code, 1, Len(mappings))

CompactViewOf(adapted) ==
    Replace(Replace(adapted, LayoutList, <<VmCompact>>), VmCompactParen, <<"true">>)

NormalViewOf(adapted) ==
    Replace(Replace(adapted, LayoutList, <<VmNormal>>), VmCompactParen, <<"false">>)

GridNormalOf(adapted) ==
    Replace(adapted, ReturnParen, <<GuardGridNormal, "\n  ">> \o ReturnParen)
        \o <<"\n  }">>

GridCompactOf(adapted) ==
    Replace(
        Replace(
            Replace(
                Replace(adapted, ReturnParen,
                        <<GuardGridCompact, "\n  ">> \o ReturnParen),
                <<"min-w-[280px]">>, <<"min-w-[240px]">>),
            <<"w-11 sm:w-14">>, <<"w-9 sm:w-11">>),
        <<"text-lg sm:text-2xl">>, <<"text-base sm:text-xl">>)
        \o <<"\n  }">>

\* view.split('return (')[1] if 'return (' in view else view
ViewBody(view) ==
    IF Contains(view, ReturnParen) THEN Split(view, ReturnParen)[2] ELSE view

\* A variant with the two grid blocks in the other order.
OutputOfMutantSwap(h, cv, nv, gn, gc) ==
    h \o <<"\n\n  // LIST COMPACT VIEW\n  ", GuardCompact, "\n    ">> \o ReturnParen
      \o <<"\n">> \o ViewBody(cv)
      \o <<"\n  }\n\n  // LIST NORMAL VIEW\n  ", GuardNormal, "\n    ">> \o ReturnParen
      \o <<"\n">> \o ViewBody(nv)
      \o <<"\n  }\n\n">> \o gc \o <<"\n\n">> \o gn \o <<"\n\n  return null;\n}\n">>

OutputOf(h, cv, nv, gn, gc) ==
    h \o <<"\n\n  // LIST COMPACT VIEW\n  ", GuardCompact, "\n    ">> \o ReturnParen
      \o <<"\n">> \o ViewBody(cv)
      \o <<"\n  }\n\n  // LIST NORMAL VIEW\n  ", GuardNormal, "\n    ">> \o ReturnParen
      \o <<"\n">> \o ViewBody(nv)
      \o <<"\n  }\n\n">> \o gn \o <<"\n\n">> \o gc \o <<"\n\n  return null;\n}\n">>

(***************************************************************************)
(* The run, one action per statement group.                                *)
(***************************************************************************)
Unset == <<>>

Fresh ==
    /\ pc = "read_current"
    /\ current = Unset /\ ref = Unset /\ header = Unset
    /\ list_section = Unset /\ grid_section = Unset /\ list_parts = Unset
    /\ list_adapted = Unset /\ grid_adapted = Unset
    /\ compact_view = Unset /\ normal_view = Unset
    /\ grid_normal = Unset /\ grid_compact = Unset
    /\ output = Unset /\ stdout = <<>> /\ io = <<>>

\* with open(CurrentPath, 'r') as f: current = f.read()
ReadCurrent ==
    /\ pc = "read_current"
    /\ IF perm.readCurrent
       THEN /\ current' = fsCurrent
            /\ io' = Append(io, [op |-> "read", path |-> CurrentPath, data |-> fsCurrent])
            /\ pc' = "read_ref"
       ELSE /\ pc' = "fault"
            /\ UNCHANGED <<current, io>>
    /\ UNCHANGED <<fsCurrent, fsRef, perm, ref, header, list_section, grid_section,
                   list_parts, list_adapted, grid_adapted, compact_view, normal_view,
                   grid_normal, grid_compact, output, stdout, fsAtStart, ref0, prev>>

\* A variant that goes on without the reference file when it cannot be opened.
ReadRefMutantIgnore ==
    /\ pc = "read_ref"
    /\ IF perm.readRef
       THEN /\ ref' = fsRef
            /\ io' = Append(io, [op |-> "read", path |-> RefPath, data |-> fsRef])
       ELSE UNCHANGED <<ref, io>>
    /\ pc' = "extract"
    /\ UNCHANGED <<fsCurrent, fsRef, perm, current, header, list_section, grid_section,
                   list_parts, list_adapted, grid_adapted, compact_view, normal_view,
                   grid_normal, grid_compact, output, stdout, fsAtStart, ref0, prev>>

\* with open(RefPath, 'r') as f: ref = f.read()
ReadRef ==
    /\ pc = "read_ref"
    /\ IF perm.readRef
       THEN /\ ref' = fsRef
            /\ io' = Append(io, [op |-> "read", path |-> RefPath, data |-> fsRef])
            /\ pc' = "extract"
       ELSE /\ pc' = "fault"
            /\ UNCHANGED <<ref, io>>
    /\ UNCHANGED <<fsCurrent, fsRef, perm, current, header, list_section, grid_section,
                   list_parts, list_adapted, grid_adapted, compact_view, normal_view,
                   grid_normal, grid_compact, output, stdout, fsAtStart, ref0, prev>>

Extract ==
    /\ pc = "extract"
    /\ header' = HeaderOf(current)
    /\ list_section' = ListSectionOf(ref)
    /\ grid_section' = GridSectionOf(ref)
    /\ list_parts' = Split(ListSectionOf(ref), IsCompactQ)
    /\ pc' = "adapt"
    /\ UNCHANGED <<fsCurrent, fsRef, perm, current, ref, list_adapted, grid_adapted,
                   compact_view, normal_view, grid_normal, grid_compact, output,
                   stdout, io, fsAtStart, ref0, prev>>

Adapt ==
    /\ pc = "adapt"
    /\ list_adapted' = apply_mappings(list_section)
    /\ grid_adapted' = apply_mappings(grid_section)
    /\ pc' = "build"
    /\ UNCHANGED <<fsCurrent, fsRef, perm, current, ref, header, list_section,
                   grid_section, list_parts, compact_view, normal_view, grid_normal,
                   grid_compact, output, stdout, io, fsAtStart, ref0, prev>>

Build ==
    /\ pc = "build"
    /\ compact_view' = CompactViewOf(list_adapted)
    /\ normal_view' = NormalViewOf(list_adapted)
    /\ grid_normal' = GridNormalOf(grid_adapted)
    /\ grid_compact' = GridCompactOf(grid_adapted)
    /\ pc' = "assemble"
    /\ UNCHANGED <<fsCurrent, fsRef, perm, current, ref, header, list_section,
                   grid_section, list_parts, list_adapted, grid_adapted, output,
                   stdout, io, fsAtStart, ref0, prev>>

Assemble ==
    /\ pc = "assemble"
    /\ output' = OutputOf(header, compact_view, normal_view, grid_normal, grid_compact)
    /\ pc' = "write"
    /\ UNCHANGED <<fsCurrent, fsRef, perm, current, ref, header, list_section,
                   grid_section, list_parts, list_adapted, grid_adapted, compact_view,
                   normal_view, grid_normal, grid_compact, stdout, io, fsAtStart,
                   ref0, prev>>

\* A variant that writes to the reference path.
WriteOutputMutantRef ==
    /\ pc = "write"
    /\ IF perm.writeCurrent
       THEN /\ fsRef' = output
            /\ io' = Append(io, [op |-> "write", path |-> RefPath, data |-> output])
            /\ pc' = "print"
       ELSE /\ pc' = "fault"
            /\ UNCHANGED <<fsRef, io>>
    /\ UNCHANGED <<fsCurrent, perm, current, ref, header, list_section, grid_section,
                   list_parts, list_adapted, grid_adapted, compact_view, normal_view,
                   grid_normal, grid_compact, output, stdout, fsAtStart, ref0, prev>>

\* with open(CurrentPath, 'w') as f: f.write(output)
WriteOutput ==
    /\ pc = "write"
    /\ IF perm.writeCurrent
       THEN /\ fsCurrent' = output
            /\ io' = Append(io, [op |-> "write", path |-> CurrentPath, data |-> output])
            /\ pc' = "print"
       ELSE /\ pc' = "fault"
            /\ UNCHANGED <<fsCurrent, io>>
    /\ UNCHANGED <<fsRef, perm, current, ref, header, list_section, grid_section,
                   list_parts, list_adapted, grid_adapted, compact_view, normal_view,
                   grid_normal, grid_compact, output, stdout, fsAtStart, ref0, prev>>

\* A variant that can print in place of the write.
PrintSuccessMutantEarly ==
    /\ pc \in {"write", "print"}
    /\ stdout' = stdout \o <<"Reference design applied successfully!",
                             "File: " \o CurrentPath,
                             "\nNext: Run npm run build to verify">>
    /\ pc' = "done"
    /\ UNCHANGED <<fsCurrent, fsRef, perm, current, ref, header, list_section,
                   grid_section, list_parts, list_adapted, grid_adapted, compact_view,
                   normal_view, grid_normal, grid_compact, output, io, fsAtStart,
                   ref0, prev>>

\* the three print() calls
PrintSuccess ==
    /\ pc = "print"
    /\ stdout' = stdout \o <<"Reference design applied successfully!",
                             "File: " \o CurrentPath,
                             "\nNext: Run npm run build to verify">>
    /\ pc' = "done"
    /\ UNCHANGED <<fsCurrent, fsRef, perm, current, ref, header, list_section,
                   grid_section, list_parts, list_adapted, grid_adapted, compact_view,
                   normal_view, grid_normal, grid_compact, output, io, fsAtStart,
                   ref0, prev>>

Wrote == \E k \in 1..Len(io) : io[k].op = "write"

\* The script is started again: a new process, the same files.
Rerun ==
    /\ pc \in {"done", "fault"}
    /\ prev' = IF Wrote
               THEN [wrote |-> TRUE, out |-> output,
                     matched |-> HeaderSearch(current).matched]
               ELSE [wrote |-> FALSE, out |-> <<>>, matched |-> FALSE]
    /\ fsAtStart' = fsCurrent
    /\ pc' = "read_current"
    /\ current' = Unset /\ ref' = Unset /\ header' = Unset
    /\ list_section' = Unset /\ grid_section' = Unset /\ list_parts' = Unset
    /\ list_adapted' = Unset /\ grid_adapted' = Unset
    /\ compact_view' = Unset /\ normal_view' = Unset
    /\ grid_normal' = Unset /\ grid_compact' = Unset
    /\ output' = Unset /\ stdout' = <<>> /\ io' = <<>>
    /\ UNCHANGED <<fsCurrent, fsRef, perm, ref0>>

Next ==
    \/ ReadCurrent
    \/ ReadRef
    \/ Extract
    \/ Adapt
    \/ Build
    \/ Assemble
    \/ WriteOutput
    \/ PrintSuccess
    \/ Rerun

(***************************************************************************)
(* The inputs: file contents made of a few words each.                     *)
(***************************************************************************)
SeqsUpTo(S, n) == UNION {[1..k -> S] : k \in 0..n}

RECURSIVE Flatten(_)
Flatten(ws) == IF ws = <<>> THEN <<>> ELSE Head(ws) \o Flatten(Tail(ws))

Texts(words, n) == {Flatten(ws) : ws \in SeqsUpTo(words, n)}

AllOpen == [readCurrent |-> TRUE, readRef |-> TRUE, writeCurrent |-> TRUE]

Start(curs, refs, perms) ==
    /\ fsCurrent \in curs
    /\ fsRef \in refs
    /\ perm \in perms
    /\ fsAtStart = fsCurrent
    /\ ref0 = fsRef
    /\ prev = [wrote |-> FALSE, out |-> <<>>, matched |-> FALSE]
    /\ Fresh

CurWords == {<<Import>>, <<Terminator>>, <<"a">>}
RunRefWords == {<<ListMarker>>, <<GridMarker>>, <<Terminator>>, <<Import>>}

Init ==
    Start(Texts(CurWords, MaxCurWords), Texts(RunRefWords, MaxRunRefWords),
          [readCurrent : BOOLEAN, readRef : BOOLEAN, writeCurrent : BOOLEAN])

Spec == Init /\ [][Next]_vars

\* The statements of a started run execute one after the other to the end.
RunStep ==
    \/ ReadCurrent
    \/ ReadRef
    \/ Extract
    \/ Adapt
    \/ Build
    \/ Assemble
    \/ WriteOutput
    \/ PrintSuccess

\* Reference files for the marker search and the two slices.
SliceRefWords == {<<ListMarker>>, <<GridMarker>>, <<"card.">>, <<"a">>}

InitSlice ==
    Start({<<>>, <<Import, Terminator>>}, Texts(SliceRefWords, MaxSliceWords), {AllOpen})

SpecSlice == InitSlice /\ [][Next]_vars

\* Reference files whose grid fragment holds 'return (' any number of times.
GridRefWords == {<<GridMarker>>, ReturnParen, <<"return ">>, <<"isCompact">>,
                 <<"min-w-[280px]">>}

InitGrid ==
    Start({<<>>, <<Import, Terminator>>}, Texts(GridRefWords, MaxGridWords), {AllOpen})

SpecGrid == InitGrid /\ [][Next]_vars

\* Reference files that hold keys of the lookup table, and a current file
\* whose header holds them too.
MapRefWords == {<<ListMarker>>, <<GridMarker>>, <<"card.">>, <<"hasStar">>, LayoutList,
                <<"isCompact">>}

InitMap ==
    Start({<<>>, <<Import, "card.", "hasStar", "isCompact", Terminator>>},
          Texts(MapRefWords, MaxMapWords), {AllOpen})

SpecMap == InitMap /\ [][Next]_vars

(***************************************************************************)
(* Vocabulary of the properties.                                           *)
(***************************************************************************)
IsPrefix(a, b) == Len(a) <= Len(b) /\ SubSeq(b, 1, Len(a)) = a
IsSuffix(a, b) == Len(a) <= Len(b) /\ SubSeq(b, Len(b) - Len(a) + 1, Len(b)) = a

\* The occurrences str.replace would replace.
RECURSIVE Count(_, _)
Count(s, needle) ==
    IF Len(s) < Len(needle) THEN 0
    ELSE IF SubSeq(s, 1, Len(needle)) = needle
         THEN 1 + Count(SubSeq(s, Len(needle) + 1, Len(s)), needle)
         ELSE Count(Tail(s), needle)

\* The 1-based place of the first atom a of s, 0 when s has none.
FirstAtom(s, a) ==
    IF \E i \in 1..Len(s) : s[i] = a
    THEN CHOOSE i \in 1..Len(s) : s[i] = a /\ \A j \in 1..(i - 1) : s[j] # a
    ELSE 0

\* Every atom cut before its last character: texts that are equal as
\* characters and differ only in where the last atom was cut become equal.
RECURSIVE RefineAll(_)
RefineAll(s) ==
    IF s = <<>> THEN <<>>
    ELSE (IF Head(s) \in DOMAIN CharSplit
          THEN Chop(Head(s)) \o <<LastChar(Head(s))>>
          ELSE <<Head(s)>>) \o RefineAll(Tail(s))

IsGuard(a) == a \in {GuardCompact, GuardNormal, GuardGridNormal, GuardGridCompact}
Guards(s) == SelectSeq(s, IsGuard)
Repeat(a, n) == [i \in 1..n |-> a]

AfterExtract == {"adapt", "build", "assemble", "write", "print", "done"}
AfterAdapt == {"build", "assemble", "write", "print", "done"}
AfterBuild == {"assemble", "write", "print", "done"}
AfterAssemble == {"write", "print", "done"}
AfterWrite == {"print", "done"}

Events == [k \in 1..Len(io) |-> <<io[k].op, io[k].path>>]
Printed == stdout # <<>>

(***************************************************************************)
(* C1: if the current file or the reference file cannot be opened, the run *)
(* ends in a fault before the write step: it gets no further than the      *)
(* failing open, the current file keeps its contents, nothing is written   *)
(* and the success message is not printed.                                 *)
(***************************************************************************)
C1_OpenFailureWritesNothing ==
    /\ ~perm.readCurrent => pc \in {"read_current", "fault"}
    /\ (perm.readCurrent /\ ~perm.readRef) => pc \in {"read_current", "read_ref", "fault"}
    /\ (~perm.readCurrent \/ ~perm.readRef) =>
           /\ fsCurrent = fsAtStart
           /\ ~Wrote
           /\ ~Printed
           /\ output = Unset

C1_Witness ==
    /\ pc = "fault"
    /\ perm.readCurrent /\ ~perm.readRef /\ perm.writeCurrent
    /\ current # <<>>
    /\ fsCurrent = fsAtStart

(***************************************************************************)
(* C2, as stated: when both files are readable and the header pattern does *)
(* not match the current file, or a section marker is absent from the      *)
(* reference file, the run faults and the output file is not written.      *)
(***************************************************************************)
PatternOrMarkerMissing ==
    \/ ~HeaderSearch(fsAtStart).matched
    \/ FirstAtom(fsRef, ListMarker) = 0
    \/ FirstAtom(fsRef, GridMarker) = 0

C2_Original ==
    (perm.readCurrent /\ perm.readRef /\ PatternOrMarkerMissing) => ~Wrote

(***************************************************************************)
(* C2, amended: an unmatched header pattern or an absent marker does not   *)
(* stop the run.  The header fragment is then empty, an absent list marker *)
(* gives an empty list fragment, an absent grid marker gives the last      *)
(* character of the reference file as the grid fragment, the only fault    *)
(* left is the open() for writing, and a run that ends has written.        *)
(***************************************************************************)
C2_MissingPatternOrMarkerStillWrites ==
    (perm.readCurrent /\ perm.readRef /\ PatternOrMarkerMissing) =>
        /\ pc = "fault" => (~perm.writeCurrent /\ Len(io) = 2 /\ output # Unset)
        /\ pc \in AfterExtract =>
               /\ ~HeaderSearch(current).matched => header = <<>>
               /\ FirstAtom(ref, ListMarker) = 0 => list_section = <<>>
               /\ FirstAtom(ref, GridMarker) = 0 =>
                      grid_section = IF ref = <<>> THEN <<>>
                                     ELSE <<LastChar(ref[Len(ref)])>>
        /\ pc = "done" => (Wrote /\ fsCurrent = output /\ Printed)

C2_Witness ==
    /\ pc = "done"
    /\ Wrote
    /\ current # <<>> /\ ~HeaderSearch(current).matched
    /\ ref # <<>> /\ FirstAtom(ref, GridMarker) = 0 /\ FirstAtom(ref, ListMarker) = 0

(***************************************************************************)
(* C3: whenever both files can be read and the current path can be         *)
(* written, the run never faults and never leaves the order of its         *)
(* statements, whatever the two files contain: every step leads to the     *)
(* next statement, the write comes before the print, and a run that is     *)
(* done has written the output file and printed the success message.  The  *)
(* message is never printed before the write has completed.                *)
(***************************************************************************)
Following ==
    [p \in {"read_current", "read_ref", "extract", "adapt", "build", "assemble",
            "write", "print", "done"} |->
        CASE p = "read_current" -> "read_ref"
          [] p = "read_ref" -> "extract"
          [] p = "extract" -> "adapt"
          [] p = "adapt" -> "build"
          [] p = "build" -> "assemble"
          [] p = "assemble" -> "write"
          [] p = "write" -> "print"
          [] p = "print" -> "done"
          [] p = "done" -> "read_current"]

C3_WritesThenPrints ==
    /\ [](perm = AllOpen =>
             /\ pc \in DOMAIN Following
             /\ pc = "done" => (Wrote /\ fsCurrent = output /\ Printed))
    /\ [](Printed => (Wrote /\ fsCurrent = output /\ pc = "done"))
    /\ [][perm = AllOpen =>
             /\ pc' = Following[pc]
             /\ (~Printed /\ Printed') => Wrote]_vars

C3_Witness ==
    /\ pc = "done"
    /\ perm = AllOpen
    /\ Wrote /\ Printed
    /\ ~HeaderSearch(current).matched
    /\ FirstAtom(ref, GridMarker) = 0

(***************************************************************************)
(* C4: the file operations of a run are, in this order, the read of the    *)
(* current file, the read of the reference file and at most one write; the *)
(* write goes to the current path, the reference file never changes, and   *)
(* the whole current file was read before that path is overwritten.        *)
(***************************************************************************)
C4_ReadReadWrite ==
    /\ IsPrefix(Events, << <<"read", CurrentPath>>, <<"read", RefPath>>,
                           <<"write", CurrentPath>> >>)
    /\ fsRef = ref0
    /\ Wrote => (io[1].data = fsAtStart /\ current = fsAtStart /\ fsCurrent = io[3].data)
    /\ ~Wrote => fsCurrent = fsAtStart

C4_Witness ==
    /\ Len(io) = 3
    /\ fsCurrent # fsAtStart
    /\ fsAtStart # <<>>
    /\ fsRef # <<>>

(***************************************************************************)
(* C5, as stated: for every pair of inputs the written file is the header  *)
(* fragment, then exactly four guarded blocks in the order compact,        *)
(* normal, grid-normal, grid-compact, then the final 'return null;'.       *)
(***************************************************************************)
FourGuards == <<GuardCompact, GuardNormal, GuardGridNormal, GuardGridCompact>>

C5_Original ==
    pc \in AfterWrite =>
        /\ IsPrefix(header, fsCurrent)
        /\ Guards(fsCurrent) = FourGuards
        /\ fsCurrent[Len(fsCurrent)] = "\n\n  return null;\n}\n"

(***************************************************************************)
(* C5, amended: the written file is the header fragment, the compact       *)
(* block, the normal block, the grid fragment in its grid-normal form and  *)
(* again in its grid-compact form, and the final 'return null;'.  Each     *)
(* grid form carries its guard once for every 'return (' of the adapted    *)
(* grid fragment, so, when the header fragment and the adapted fragments   *)
(* hold no guard text of their own, the file holds the four guards in the  *)
(* stated order exactly when that fragment has one 'return ('.             *)
(***************************************************************************)
C5_GuardPerReturn ==
    (/\ pc \in AfterWrite
     /\ Guards(header) = <<>>
     /\ Guards(list_adapted) = <<>>
     /\ Guards(grid_adapted) = <<>>) =>
        LET n == Count(grid_adapted, ReturnParen)
        IN  /\ IsPrefix(header, fsCurrent)
            /\ fsCurrent[Len(fsCurrent)] = "\n\n  return null;\n}\n"
            /\ Guards(fsCurrent) = <<GuardCompact, GuardNormal>>
                                       \o Repeat(GuardGridNormal, n)
                                       \o Repeat(GuardGridCompact, n)
            /\ (Guards(fsCurrent) = FourGuards) <=> (n = 1)

C5_Witness ==
    /\ pc = "done"
    /\ Count(grid_section, ReturnParen) = 0
    /\ Count(grid_adapted, ReturnParen) = 1
    /\ Guards(fsCurrent) = FourGuards

(***************************************************************************)
(* C6, as stated: after the lookup table has been applied, no key of the   *)
(* table occurs in the adapted list fragment or the adapted grid fragment, *)
(* and applying the table a second time changes nothing.                   *)
(***************************************************************************)
NoKey(code, ks) == \A k \in ks : ~Contains(code, mappings[k].old)

C6_Original ==
    pc \in AfterAdapt =>
        /\ NoKey(list_adapted, 1..Len(mappings))
        /\ NoKey(grid_adapted, 1..Len(mappings))
        /\ apply_mappings(list_adapted) = list_adapted
        /\ apply_mappings(grid_adapted) = grid_adapted

(***************************************************************************)
(* C6, amended: after the lookup table has been applied, the keys          *)
(* 'card.ticketNumber', 'card.customerName', 'card.serviceName',           *)
(* 'card.percentage', 'card.id', "layout === 'list'", "size === 'compact'" *)
(* and 'isCompact' do not occur in the adapted fragments.  The other keys  *)
(* can be left where a replacement makes one ('card.card.hasStar' becomes  *)
(* 'card.hasStar'), and only then does a second application change the     *)
(* fragment.  The header fragment is the text of the current file, not     *)
(* rewritten by the table.                                                 *)
(***************************************************************************)
StableKeys == {1, 2, 3, 4, 10, 11, 12, 13}

C6_StableKeysGone ==
    /\ pc \in AfterAdapt =>
           /\ NoKey(list_adapted, StableKeys)
           /\ NoKey(grid_adapted, StableKeys)
           /\ NoKey(list_adapted, 1..Len(mappings)) =>
                  ApplyFrom(list_adapted, 1, Len(mappings)) = list_adapted
           /\ NoKey(grid_adapted, 1..Len(mappings)) =>
                  ApplyFrom(grid_adapted, 1, Len(mappings)) = grid_adapted
    /\ (pc \in AfterAssemble /\ HeaderSearch(current).matched) =>
           /\ header = SubSeq(current, FirstAtom(current, Import),
                              FirstAtom(current, Import) + Len(header) - 1)
           /\ IsPrefix(header, output)

C6_Witness ==
    /\ pc = "done"
    /\ Contains(grid_section, <<"isCompact">>)
    /\ Contains(grid_section, <<"card.", "hasStar">>)
    /\ NoKey(grid_adapted, 1..Len(mappings))
    /\ Contains(header, <<"isCompact">>)
    /\ Contains(fsCurrent, <<"isCompact">>)

(***************************************************************************)
(* C8: in the compact view every "layout === 'list'" test of the list      *)
(* fragment has become "viewMode === 'compact'", and in the normal view    *)
(* every such test has become "viewMode === 'normal'".                     *)
(***************************************************************************)
C8_LayoutTestsSpecialised ==
    pc \in AfterBuild =>
        /\ Count(compact_view, <<VmCompact>>) = Count(list_section, LayoutList)
        /\ Count(compact_view, <<VmNormal>>) = 0
        /\ Count(normal_view, <<VmNormal>>) = Count(list_section, LayoutList)
        /\ Count(normal_view, <<VmCompact>>) = 0

(***************************************************************************)
(* C9: the header fragment is the text from the first 'import' of the      *)
(* current file to the first terminator after it, and the written file     *)
(* depends on the current file through it alone: a run on the file the     *)
(* previous run wrote, whose header pattern had matched, writes that same  *)
(* file again.                                                             *)
(***************************************************************************)
C9_RerunWritesSameFile ==
    /\ (pc \in AfterExtract /\ HeaderSearch(current).matched) =>
           /\ header[1] = Import
           /\ header[Len(header)] = Terminator
           /\ Count(header, <<Terminator>>) = 1
           /\ header = SubSeq(current, FirstAtom(current, Import),
                              FirstAtom(current, Import) + Len(header) - 1)
    /\ (pc \in AfterWrite /\ prev.wrote /\ prev.matched) =>
           /\ fsAtStart = prev.out
           /\ fsCurrent = prev.out

C9_Witness ==
    /\ pc = "done"
    /\ prev.wrote /\ prev.matched
    /\ fsCurrent = prev.out
    /\ Len(current) > Len(header)
    /\ Contains(grid_section, <<Terminator>>)

(***************************************************************************)
(* C10: for every reference file the list fragment followed by the grid    *)
(* fragment is a suffix of the file.  With the grid marker present the     *)
(* grid fragment runs from that marker to the end of the file; with both   *)
(* markers present and the list marker first, the list fragment runs from  *)
(* the list marker to just before the grid marker; with the list marker    *)
(* absent, or after the grid marker, the list fragment is empty.           *)
(***************************************************************************)
C10_FragmentsAreASuffix ==
    pc \in AfterExtract =>
        LET l == FirstAtom(ref, ListMarker)
            g == FirstAtom(ref, GridMarker)
        IN  /\ IsSuffix(RefineAll(list_section \o grid_section), RefineAll(ref))
            /\ g # 0 => grid_section = SubSeq(ref, g, Len(ref))
            /\ (l # 0 /\ g # 0 /\ l < g) => list_section = SubSeq(ref, l, g - 1)
            /\ (l = 0 \/ (g # 0 /\ g < l)) => list_section = <<>>

C10_Witness ==
    /\ pc = "adapt"
    /\ FirstAtom(ref, ListMarker) > 1
    /\ FirstAtom(ref, GridMarker) > FirstAtom(ref, ListMarker) + 1
    /\ Len(list_section) > 1
    /\ Len(list_section \o grid_section) < Len(ref)

====
